---- MODULE Spec2Model ----
(***************************************************************************)
(* Model of the Web3Client of bilbeyt/staking_facilities_assignment        *)
(* (src/src/client.go) and of the two gin handlers in front of it          *)
(* (src/src/main.go): the reward query, the sync-committee duty query,     *)
(* the rate-limited transport they share, and the HTTP status mapping.     *)
(*                                                                         *)
(* Arbitrary-precision values (math/big) are kept arbitrary-precision: a   *)
(* natural number is the sequence of its base-1000 limbs, least            *)
(* significant first, without leading zero limbs (zero is the empty        *)
(* sequence), and a big.Int is a sign and a magnitude, as in math/big.     *)
(* Strings are sequences of one-character strings.  The arithmetic         *)
(* recurses over limbs only (carries limb by limb, products by column      *)
(* sums).                                                                  *)
(***************************************************************************)
EXTENDS Integers, Sequences, FiniteSets, TLC

(***************************************************************************)
(* Natural numbers of any size (math/big nat)                              *)
(***************************************************************************)

Max(a, b) == IF a >= b THEN a ELSE b

SetMax(S) == CHOOSE m \in S : \A j \in S : j <= m

\* limb i of a, zero above the most significant limb
At(a, i) == IF i >= 1 /\ i <= Len(a) THEN a[i] ELSE 0

\* drop the zero limbs above the most significant one
Norm(d) ==
    LET nz == {i \in 1..Len(d) : d[i] # 0}
    IN  IF nz = {} THEN << >> ELSE SubSeq(d, 1, SetMax(nz))

\* the limbs of a machine integer n >= 0
NatFromInt(n) ==
    Norm(<<n % 1000, (n \div 1000) % 1000, (n \div 1000000) % 1000, n \div 1000000000>>)

\* -1, 0 or 1 as a < b, a = b, a > b
NatCmp(a, b) ==
    IF Len(a) < Len(b) THEN -1
    ELSE IF Len(a) > Len(b) THEN 1
    ELSE LET diff == {i \in 1..Len(a) : a[i] # b[i]}
         IN  IF diff = {} THEN 0
             ELSE IF a[SetMax(diff)] < b[SetMax(diff)] THEN -1 ELSE 1

\* the limbs k.. of the number whose limb sums are cols, with carry c coming in
RECURSIVE Carry(_, _, _)
Carry(cols, k, c) ==
    IF k > Len(cols) /\ c = 0 THEN << >>
    ELSE LET t == At(cols, k) + c
         IN  <<t % 1000>> \o Carry(cols, k + 1, t \div 1000)

\* a + b
NatAdd(a, b) ==
    Norm(Carry(SubSeq([i \in 1..Max(Len(a), Len(b)) |-> At(a, i) + At(b, i)],
                      1, Max(Len(a), Len(b))), 1, 0))

\* the limbs i.. of a - b with borrow c coming in
RECURSIVE Borrow(_, _, _, _)
Borrow(a, b, i, c) ==
    IF i > Len(a) THEN << >>
    ELSE LET t == a[i] - At(b, i) - c
         IN  <<(t + 1000) % 1000>> \o Borrow(a, b, i + 1, IF t < 0 THEN 1 ELSE 0)

\* a - b for a >= b
NatSub(a, b) == Norm(Borrow(a, b, 1, 0))

\* the sum of a[i] * b[k + 1 - i] over the limbs i..Len(a) of a
RECURSIVE ColSum(_, _, _, _)
ColSum(a, b, k, i) ==
    IF i > Len(a) THEN 0 ELSE a[i] * At(b, k + 1 - i) + ColSum(a, b, k, i + 1)

\* a * b: the column sums, then the carries
NatMul(a, b) ==
    IF a = << >> \/ b = << >> THEN << >>
    ELSE Norm(Carry(SubSeq([k \in 1..(Len(a) + Len(b) - 1) |-> ColSum(a, b, k, 1)],
                           1, Len(a) + Len(b) - 1), 1, 0))

NatDouble(a) == NatAdd(a, a)

NatOdd(a) == a # << >> /\ a[1] % 2 = 1

\* b^n by repeated squaring
RECURSIVE NatPow(_, _)
NatPow(b, n) ==
    IF n = 0 THEN <<1>>
    ELSE LET h  == NatPow(b, n \div 2)
             sq == NatMul(h, h)
         IN  IF n % 2 = 0 THEN sq ELSE NatMul(b, sq)

Pow2(n) == NatPow(<<2>>, n)

Pow5(n) == NatPow(<<5>>, n)

\* nat.bitLen: the number of bits of a.  A number of n limbs has more than
\* 9 * (n - 1) and at most 10 * n bits
BitLen(a) ==
    IF a = << >> THEN 0
    ELSE CHOOSE k \in (9 * (Len(a) - 1) + 1)..(10 * Len(a)) :
            LET p == Pow2(k)
            IN  NatCmp(a, p) < 0 /\ NatCmp(NatDouble(a), p) >= 0

\* the decimal digits of a, least significant first, without leading zeros
NatDigits(a) ==
    LET d == [i \in 1..(3 * Len(a)) |->
                LET limb == a[(i + 2) \div 3]
                    pos  == (i - 1) % 3
                IN  IF pos = 0 THEN limb % 10
                    ELSE IF pos = 1 THEN (limb \div 10) % 10
                    ELSE limb \div 100]
        nz == {i \in 1..Len(d) : d[i] # 0}
    IN  IF nz = {} THEN << >> ELSE SubSeq(d, 1, SetMax(nz))

\* the natural number of decimal digits d, least significant first
NatOfDigits(d) ==
    Norm([j \in 1..((Len(d) + 2) \div 3) |->
            At(d, 3 * j - 2) + 10 * At(d, 3 * j - 1) + 100 * At(d, 3 * j)])

(***************************************************************************)
(* big.Int: a sign and a magnitude                                         *)
(***************************************************************************)

BigOf(neg, abs) == [neg |-> neg /\ abs # << >>, abs |-> abs]

\* big.NewInt(n)
NewInt(n) == IF n < 0 THEN BigOf(TRUE, NatFromInt(-n)) ELSE BigOf(FALSE, NatFromInt(n))

\* x.Cmp(y)
BigCmp(x, y) ==
    IF x.neg # y.neg THEN (IF x.neg THEN -1 ELSE 1)
    ELSE IF x.neg THEN NatCmp(y.abs, x.abs)
    ELSE NatCmp(x.abs, y.abs)

BigNeg(x) == BigOf(~x.neg, x.abs)

\* z.Add(x, y)
BigAdd(x, y) ==
    IF x.neg = y.neg THEN BigOf(x.neg, NatAdd(x.abs, y.abs))
    ELSE IF NatCmp(x.abs, y.abs) >= 0 THEN BigOf(x.neg, NatSub(x.abs, y.abs))
    ELSE BigOf(y.neg, NatSub(y.abs, x.abs))

\* z.Sub(x, y)
BigSub(x, y) == BigAdd(x, BigNeg(y))

\* z.Mul(x, y)
BigMul(x, y) == BigOf(x.neg # y.neg, NatMul(x.abs, y.abs))

(***************************************************************************)
(* Strings and big.Int.SetString(s, 10)                                    *)
(***************************************************************************)

DigitChars == <<"0", "1", "2", "3", "4", "5", "6", "7", "8", "9">>

IsDigit(c) == \E i \in 1..Len(DigitChars) : DigitChars[i] = c

DigitVal(c) == (CHOOSE i \in 1..Len(DigitChars) : DigitChars[i] = c) - 1

DigitChar(d) == DigitChars[d + 1]

Reverse(s) == [i \in 1..Len(s) |-> s[Len(s) + 1 - i]]

\* the value and ok of new(big.Int).SetString(s, 10): an optional sign, then
\* one or more decimal digits, and nothing else
SetString(s) ==
    LET signed == s # << >> /\ s[1] \in {"+", "-"}
        body   == IF signed THEN Tail(s) ELSE s
        ok     == body # << >> /\ \A i \in 1..Len(body) : IsDigit(body[i])
    IN  IF ok
        THEN [ok |-> TRUE,
              val |-> BigOf(signed /\ s[1] = "-",
                            NatOfDigits(Reverse([i \in 1..Len(body) |-> DigitVal(body[i])])))]
        ELSE [ok |-> FALSE, val |-> NewInt(0)]

(***************************************************************************)
(* big.Float: new(big.Float).Quo(SetInt(reward), SetInt(GWEI)).Text('f', 9)*)
(***************************************************************************)

\* GWEI = 10^GweiZeros
GweiZeros == 9

GweiNat == NatOfDigits([i \in 1..(GweiZeros + 1) |-> IF i = GweiZeros + 1 THEN 1 ELSE 0])

\* the precision SetInt gives a Float of precision 0: max(x.BitLen(), 64)
FloatMinPrec == 64

\* the digits Text('f', 9) keeps after the decimal point
TextDigits == 9

\* -1, 0, 1 as the low n decimal digits of d (least significant first) are
\* below, at or above one half of 10^n
HalfCmp(d, n) ==
    IF n = 0 \/ Len(d) < n \/ d[n] < 5 THEN -1
    ELSE IF d[n] > 5 \/ \E i \in 1..(n - 1) : d[i] # 0 THEN 1
    ELSE 0

\* |reward| / GWEI rounded to nearest even at the precision of the quotient:
\* the mantissa m and the scale s of the Float m / 2^s  (a # 0).  s is the
\* least shift with a * 2^s / GWEI >= 2^(prec - 1)
FloatQuoGwei(a) ==
    LET prec == Max(BitLen(a), FloatMinPrec)
        lo   == NatMul(Pow2(prec - 1), GweiNat)
        s0   == (prec - 1) + BitLen(GweiNat) - BitLen(a)
        x0   == NatMul(a, Pow2(s0))
        s    == IF NatCmp(x0, lo) >= 0 THEN s0 ELSE s0 + 1
        x    == NatDigits(IF s = s0 THEN x0 ELSE NatDouble(x0))
        q    == NatOfDigits(SubSeq(x, GweiZeros + 1, Len(x)))
        c    == HalfCmp(x, GweiZeros)
        up   == c = 1 \/ (c = 0 /\ NatOdd(q))
    IN  [mant |-> IF up THEN NatAdd(q, <<1>>) ELSE q, s |-> s]

\* Text('f', n) of the Float m / 2^s: the decimal expansion rounded at n
\* digits after the point (a tie goes to the even digit), as an integer
\* count of 10^-n.  m * 10^n / 2^s is computed as m * 5^s * 10^n / 10^s.
FloatDecimal(f, n) ==
    LET z  == [i \in 1..n |-> 0] \o NatDigits(NatMul(f.mant, Pow5(f.s)))
        q  == NatOfDigits(SubSeq(z, f.s + 1, Len(z)))
        c  == HalfCmp(z, f.s)
        up == c = 1 \/ (c = 0 /\ NatOdd(q))
    IN  IF up THEN NatAdd(q, <<1>>) ELSE q

\* the text of k * 10^-n with n digits after the point, signed
FixedText(neg, k, n) ==
    LET d      == NatDigits(k)
        padded == IF Len(d) > n THEN d ELSE d \o [i \in 1..(n + 1 - Len(d)) |-> 0]
        txt    == Reverse([i \in 1..Len(padded) |-> DigitChar(padded[i])])
        whole  == SubSeq(txt, 1, Len(txt) - n)
        frac   == SubSeq(txt, Len(txt) - n + 1, Len(txt))
    IN  (IF neg THEN <<"-">> ELSE << >>) \o whole \o <<".">> \o frac

\* rewardAsFloat.Text('f', 9) for rewardAsFloat = reward / GWEI
RewardText(reward) ==
    IF reward.abs = << >> THEN FixedText(FALSE, << >>, TextDigits)
    ELSE FixedText(reward.neg, FloatDecimal(FloatQuoGwei(reward.abs), TextDigits), TextDigits)

\* the decimal text of a big.Int (x.String())
BigText(x) ==
    (IF x.neg THEN <<"-">> ELSE << >>)
        \o (IF x.abs = << >> THEN <<"0">>
            ELSE Reverse([i \in 1..Len(NatDigits(x.abs)) |-> DigitChar(NatDigits(x.abs)[i])]))

(***************************************************************************)
(* Program constants                                                       *)
(***************************************************************************)

BlocksAvailableAfterSlot == 4700012

MevFeeCalculationFactor == 3

\* rate.NewLimiter(reqPerSec, 1): the burst of the shared token bucket
Burst == 1

StatusOK == 200
StatusBadRequest == 400
StatusNotFound == 404
StatusInternalServerError == 500

(***************************************************************************)
(* Errors and results                                                      *)
(***************************************************************************)

NilErr == [kind |-> "nil", msg |-> ""]
SlotMissingError(msg) == [kind |-> "SlotMissingError", msg |-> msg]
FutureSlotError(msg) == [kind |-> "FutureSlotError", msg |-> msg]
\* errors.New and the errors of net/http, encoding/json and the rpc client
ParseErr == [kind |-> "error", msg |-> "can not convert slotId to bigInt"]
TransportErr == [kind |-> "error", msg |-> "transport"]
JsonErr == [kind |-> "error", msg |-> "json"]
RpcErr == [kind |-> "error", msg |-> "rpc"]
CanceledErr == [kind |-> "error", msg |-> "context canceled"]
\* a run-time panic (index out of range) unwinding the query
PanicErr == [kind |-> "panic", msg |-> "index out of range"]

\* a nil pointer or slice, and a pointer to v
NilPtr == << >>
Ptr(v) == <<v>>

(***************************************************************************)
(* Pure steps of the client                                                *)
(***************************************************************************)

\* a request that decodes the body before it looks at the status
SendAPIRequestDecodeFirst(ans) ==
    IF ans.net THEN TransportErr
    ELSE IF ~ans.json THEN JsonErr
    ELSE IF ans.code = StatusNotFound THEN FutureSlotError("Slot is in the future")
    ELSE IF ans.code = StatusBadRequest THEN SlotMissingError("Slot is not found")
    ELSE NilErr

\* sendAPIRequest: the error it returns for an upstream answer
\* [net: the send or the body read failed, code, json: the body decodes, data]
SendAPIRequest(ans) ==
    IF ans.net THEN TransportErr
    ELSE IF ans.code = StatusNotFound THEN FutureSlotError("Slot is in the future")
    ELSE IF ans.code = StatusBadRequest THEN SlotMissingError("Slot is not found")
    ELSE IF ~ans.json THEN JsonErr
    ELSE NilErr

\* getCurrentSlotId: the slot it returns, or the panic of header.Data[0]
GetCurrentSlotId(ans) ==
    IF SendAPIRequest(ans) # NilErr THEN [panic |-> FALSE, val |-> NewInt(0)]
    ELSE IF Len(ans.data) = 0 THEN [panic |-> TRUE, val |-> NewInt(0)]
    ELSE IF ~SetString(ans.data[1]).ok THEN [panic |-> FALSE, val |-> NewInt(0)]
    ELSE [panic |-> FALSE, val |-> SetString(ans.data[1]).val]

\* hex digits of a common.Hash
HashChars == 64

\* common.HexToHash on a string of hex digits: the 0x prefix is dropped, and
\* the digits are right-aligned in the hash, left-padded with zeros or
\* cropped from the left
HexToHash(s) ==
    LET prefixed == Len(s) >= 2 /\ s[1] = "0" /\ s[2] \in {"x", "X"}
        digits   == IF prefixed THEN SubSeq(s, 3, Len(s)) ELSE s
        n        == Len(digits)
    IN  IF n >= HashChars THEN SubSeq(digits, n - HashChars + 1, n)
        ELSE SubSeq([i \in 1..HashChars |-> "0"], 1, HashChars - n) \o digits

\* a floor check that lets the floor slot itself through
BelowFloorStrict(slotIdAsInt) == BigCmp(slotIdAsInt, NewInt(BlocksAvailableAfterSlot)) = -1

\* slotIdAsInt.Cmp(BlocksAvailableAfterSlot) != 1
BelowFloor(slotIdAsInt) == BigCmp(slotIdAsInt, NewInt(BlocksAvailableAfterSlot)) # 1

\* a future check that also rejects the head slot itself
InFutureOrAt(slotIdAsInt, currentSlotId) == BigCmp(slotIdAsInt, currentSlotId) >= 0

\* slotIdAsInt.Cmp(currentSlotId) == 1
InFuture(slotIdAsInt, currentSlotId) == BigCmp(slotIdAsInt, currentSlotId) = 1

\* burntFees
BurntFees(block) == BigMul(block.baseFee, NewInt(block.gasUsed))

\* a cost that ignores the receipt
TxCostDeclared(tx, receiptOk) == tx.cost

\* the cost a transaction adds: the receipt's when it was fetched
TxCost(tx, receiptOk) ==
    IF receiptOk THEN BigMul(tx.effectiveGasPrice, NewInt(tx.receiptGasUsed))
    ELSE tx.cost

\* the gas price the classification looks at
TxGasPrice(tx, receiptOk) ==
    IF receiptOk THEN tx.effectiveGasPrice ELSE tx.gasPrice

\* a classification that counts a price at the threshold
IsMevAtLeast(gasPrice, baseFee) ==
    BigCmp(gasPrice, BigMul(baseFee, NewInt(MevFeeCalculationFactor))) >= 0

\* gasPrice.Cmp(baseFee * MevFeeCalculationFactor) == 1
IsMev(gasPrice, baseFee) ==
    BigCmp(gasPrice, BigMul(baseFee, NewInt(MevFeeCalculationFactor))) = 1

\* a pass of the loop whose status follows the last transaction only
TxStepLast(acc, tx, receiptOk, baseFee) ==
    [txCosts |-> BigAdd(acc.txCosts, TxCost(tx, receiptOk)),
     status  |-> IF IsMev(TxGasPrice(tx, receiptOk), baseFee) THEN "mev" ELSE "vanilla"]

\* one pass of the loop over block.Transactions()
TxStep(acc, tx, receiptOk, baseFee) ==
    [txCosts |-> BigAdd(acc.txCosts, TxCost(tx, receiptOk)),
     status  |-> IF IsMev(TxGasPrice(tx, receiptOk), baseFee) THEN "mev" ELSE acc.status]

\* the endpoint of getPubKeysOfSyncCommittees after StatePath + slotId + "/validators"
RECURSIVE PubKeysQuery(_, _)
PubKeysQuery(validatorIndexes, index) ==
    IF index > Len(validatorIndexes) THEN << >>
    ELSE (IF index = 1 THEN <<"?">> ELSE << >>)
         \o <<"id=", validatorIndexes[index]>>
         \o (IF index # Len(validatorIndexes) THEN <<"&">> ELSE << >>)
         \o PubKeysQuery(validatorIndexes, index + 1)

\* the response a handler writes for what the query returned
HandlerResponse(err, payload) ==
    IF err # NilErr
    THEN IF err.kind = "SlotMissingError"
         THEN [code |-> StatusNotFound, body |-> [error |-> err.msg]]
         ELSE IF err.kind = "FutureSlotError"
         THEN [code |-> StatusBadRequest, body |-> [error |-> err.msg]]
         ELSE [code |-> StatusInternalServerError, body |-> [null |-> TRUE]]
    ELSE [code |-> StatusOK, body |-> payload]

\* a wait that never sleeps
ReserveNoWait(tokens) == [tokens |-> tokens - 1, delay |-> 0]

\* rateLimiter.Wait on a bucket holding `tokens`: the token is taken at
\* once; a bucket left below zero makes the caller sleep that many refills
ReserveN(tokens) == [tokens |-> tokens - 1, delay |-> Max(0, 1 - tokens)]

(***************************************************************************)
(* Bounds and the answers the upstream may give                            *)
(***************************************************************************)

\* inbound requests served concurrently
MaxRequests == 2

\* transactions in a block
MaxTxs == 2

Requests == 1..MaxRequests

Floor == BlocksAvailableAfterSlot

IntText(n) == BigText(NewInt(n))

\* slot strings a caller may send
SlotInputs ==
    {IntText(5), IntText(Floor), IntText(Floor + 1), IntText(Floor + 2),
     IntText(-5), <<"+", "5">>, << >>, <<"x">>}

\* head slots of the upstream chain
HeadSlots == {IntText(Floor - 1), IntText(Floor + 1)}

Rest(net, code, json, data) == [net |-> net, code |-> code, json |-> json, data |-> data]

\* the answers of a REST endpoint whose decoded payload is one of `payloads`
\* and whose zero value is `zero`: a transport failure, a 400 whose body could
\* not be read, 400, 404, a body that is no JSON, an error status with a JSON
\* body of another shape, or 200
RestAnswers(payloads, zero) ==
    {Rest(TRUE, 0, FALSE, zero), Rest(TRUE, StatusBadRequest, FALSE, zero),
     Rest(FALSE, StatusBadRequest, FALSE, zero),
     Rest(FALSE, StatusOK, FALSE, zero), Rest(FALSE, StatusInternalServerError, TRUE, zero)}
    \cup {Rest(FALSE, StatusNotFound, TRUE, d) : d \in payloads}
    \cup {Rest(FALSE, StatusOK, TRUE, d) : d \in payloads}

Tx(cost, gasPrice, effectiveGasPrice, receiptGasUsed) ==
    [cost |-> cost, gasPrice |-> gasPrice,
     effectiveGasPrice |-> effectiveGasPrice, receiptGasUsed |-> receiptGasUsed]

\* 2^34 * 10^9 + 22 wei, a transfer of some 17.18 ether
LargeCost == BigOf(FALSE, NatAdd(NatMul(Pow2(34), GweiNat), <<22>>))

\* against base fee 7 the first is at the threshold by its declared price and
\* above it by its effective price; against base fee 1 the second is above
\* the threshold by its declared price and at it by its effective price
TxSet ==
    {Tx(NewInt(30), NewInt(21), NewInt(22), 5),
     Tx(NewInt(40), NewInt(50), NewInt(3), 1),
     Tx(LargeCost, NewInt(2), NewInt(2), 1)}

SeqsUpTo(S, n) == UNION {[1..k -> S] : k \in 0..n}

Block(baseFee, gasUsed, txs) == [baseFee |-> baseFee, gasUsed |-> gasUsed, txs |-> txs]

NoBlock == Block(NewInt(0), 0, << >>)

Blocks(txs, n) == {Block(NewInt(b), 3, t) : b \in {1, 7}, t \in SeqsUpTo(txs, n)}

(***************************************************************************)
(* State                                                                   *)
(***************************************************************************)

VARIABLES
    req,        \* per inbound request: the position and the locals of its query
    lim,        \* the token bucket of the shared transport, and its counters
    chainHead   \* the head slot the upstream reports when it answers properly

vars == <<req, lim, chainHead>>

IdleRequest ==
    [kind |-> "none", slotId |-> << >>, pc |-> "idle",
     rt |-> "none", delay |-> 0,
     ctx |-> "live", cancelledInWait |-> FALSE,
     slotIdAsInt |-> NewInt(0), currentSlotId |-> NewInt(0),
     blockHash |-> HexToHash(<< >>),
     block |-> NoBlock, receipts |-> << >>,
     txCosts |-> NewInt(0), status |-> "vanilla",
     validatorIndexes |-> << >>,
     upstream |-> << >>,
     reward |-> NilPtr, statusOut |-> NilPtr, pubKeys |-> NilPtr, err |-> NilErr,
     http |-> [code |-> 0, body |-> [null |-> TRUE]]]

InitWith(heads) ==
    /\ req = [p \in Requests |-> IdleRequest]
    /\ lim = [tokens |-> Burst, accrued |-> Burst, forwarded |-> 0]
    /\ chainHead \in heads

Set(p, r) == req' = [req EXCEPT ![p] = r]

\* the query of request p returns (reward, status, pubKeys, err)
Return(r, reward, statusOut, pubKeys, err) ==
    [r EXCEPT !.pc = "returned", !.reward = reward, !.statusOut = statusOut,
              !.pubKeys = pubKeys, !.err = err]

Logged(r, endpoint, ans) ==
    [r EXCEPT !.rt = "none", !.upstream = Append(@, [endpoint |-> endpoint, ans |-> ans])]

\* the positions at which the query's next step is an outbound request
OutboundPcs == {"head", "hash", "block", "receipt", "indexes", "pubkeys"}

(***************************************************************************)
(* The rate-limited transport                                              *)
(***************************************************************************)

\* rateLimitTransport.RoundTrip up to the end of rateLimiter.Wait's
\* reservation: every outbound request, REST or RPC, starts here
RoundTripWait(p) ==
    /\ req[p].pc \in OutboundPcs
    /\ req[p].rt = "none"
    /\ Set(p, [req[p] EXCEPT !.rt = "waiting", !.delay = ReserveN(lim.tokens).delay])
    /\ lim' = [lim EXCEPT !.tokens = ReserveN(lim.tokens).tokens]
    /\ UNCHANGED chainHead

\* the wait of request p is over: rlt.transport.RoundTrip(req) is called
Forward(p) ==
    /\ req[p].rt = "waiting"
    /\ req[p].delay = 0
    /\ Set(p, [req[p] EXCEPT !.rt = "sent"])
    /\ lim' = [lim EXCEPT !.forwarded = @ + 1]
    /\ UNCHANGED chainHead

\* one refill interval of the bucket passes
Tick ==
    /\ lim.tokens < Burst
    /\ lim' = [lim EXCEPT !.tokens = @ + 1, !.accrued = @ + 1]
    /\ req' = [p \in Requests |-> [req[p] EXCEPT !.delay = Max(0, @ - 1)]]
    /\ UNCHANGED chainHead

\* the inbound request's context (the gin.Context of the handler) is
\* cancelled while its query runs
Cancel(p) ==
    /\ req[p].pc \in OutboundPcs
    /\ req[p].ctx = "live"
    /\ Set(p, [req[p] EXCEPT !.ctx = "cancelled",
                             !.cancelledInWait = (req[p].rt = "waiting" /\ req[p].delay > 0)])
    /\ UNCHANGED <<lim, chainHead>>

(***************************************************************************)
(* The reward query: GetBlockRewardAndStatusBySlot                         *)
(***************************************************************************)

\* a query that goes to the head lookup without the floor check
RewardQueryHeadFirst(p, slotId) ==
    LET r      == [req[p] EXCEPT !.kind = "reward", !.slotId = slotId]
        parsed == SetString(slotId)
        r1     == [r EXCEPT !.slotIdAsInt = parsed.val]
    IN  /\ req[p].pc = "idle"
        /\ IF ~parsed.ok
           THEN Set(p, Return(r, NilPtr, NilPtr, NilPtr, ParseErr))
           ELSE Set(p, [r1 EXCEPT !.pc = "head"])
        /\ UNCHANGED <<lim, chainHead>>

\* the call, the parse of the slot string and the floor check
RewardQuery(p, slotId) ==
    LET r      == [req[p] EXCEPT !.kind = "reward", !.slotId = slotId]
        parsed == SetString(slotId)
        r1     == [r EXCEPT !.slotIdAsInt = parsed.val]
    IN  /\ req[p].pc = "idle"
        /\ IF ~parsed.ok
           THEN Set(p, Return(r, NilPtr, NilPtr, NilPtr, ParseErr))
           ELSE IF BelowFloor(parsed.val)
           THEN Set(p, Return(r1, NilPtr, NilPtr, NilPtr, SlotMissingError("Slot is missing")))
           ELSE Set(p, [r1 EXCEPT !.pc = "head"])
        /\ UNCHANGED <<lim, chainHead>>

\* getCurrentSlotId and the future check
HeadFetch(p, ans) ==
    LET r   == Logged(req[p], "headers", ans)
        cur == GetCurrentSlotId(ans)
        r1  == [r EXCEPT !.currentSlotId = cur.val]
    IN  /\ req[p].pc = "head"
        /\ req[p].rt = "sent"
        /\ ans.data \in {<<chainHead>>, << <<"x">> >>, << >>}
        /\ IF cur.panic
           THEN Set(p, [r EXCEPT !.pc = "panicked", !.err = PanicErr])
           ELSE IF InFuture(r.slotIdAsInt, cur.val)
           THEN Set(p, Return(r1, NilPtr, NilPtr, NilPtr, FutureSlotError("Slot is in the future")))
           ELSE Set(p, [r1 EXCEPT !.pc = "hash"])
        /\ UNCHANGED <<lim, chainHead>>

\* getBlockHash
BlockHashFetch(p, ans) ==
    LET r == Logged(req[p], "blocks", ans)
    IN  /\ req[p].pc = "hash"
        /\ req[p].rt = "sent"
        /\ IF SendAPIRequest(ans) # NilErr
           THEN Set(p, Return(r, NilPtr, NilPtr, NilPtr, SendAPIRequest(ans)))
           ELSE Set(p, [r EXCEPT !.blockHash = HexToHash(ans.data), !.pc = "block"])
        /\ UNCHANGED <<lim, chainHead>>

\* w3Client.BlockByHash(ctx, blockHash) and the set-up of the loop; the call
\* fails once ctx is cancelled
BlockFetch(p, ans) ==
    LET r == Logged(req[p], "eth_getBlockByHash", ans)
    IN  /\ req[p].pc = "block"
        /\ req[p].rt = "sent"
        /\ req[p].ctx = "cancelled" => ans.err
        /\ IF ans.err
           THEN Set(p, Return(r, NilPtr, NilPtr, NilPtr,
                              IF req[p].ctx = "cancelled" THEN CanceledErr ELSE RpcErr))
           ELSE Set(p, [r EXCEPT !.block = ans.block, !.txCosts = NewInt(0),
                                 !.status = "vanilla", !.receipts = << >>,
                                 !.pc = IF Len(ans.block.txs) = 0 THEN "reward" ELSE "receipt"])
        /\ UNCHANGED <<lim, chainHead>>

\* one pass of the loop: w3Client.TransactionReceipt(ctx, tx.Hash()), which
\* fails once ctx is cancelled, and the update of txCosts and status
ReceiptFetch(p, receiptOk) ==
    LET r   == Logged(req[p], "eth_getTransactionReceipt", [err |-> ~receiptOk])
        tx  == r.block.txs[Len(r.receipts) + 1]
        acc == TxStep([txCosts |-> r.txCosts, status |-> r.status], tx, receiptOk,
                      r.block.baseFee)
    IN  /\ req[p].pc = "receipt"
        /\ req[p].rt = "sent"
        /\ req[p].ctx = "cancelled" => ~receiptOk
        /\ Set(p, [r EXCEPT !.txCosts = acc.txCosts, !.status = acc.status,
                            !.receipts = Append(@, receiptOk),
                            !.pc = IF Len(r.receipts) + 1 = Len(r.block.txs)
                                   THEN "reward" ELSE "receipt"])
        /\ UNCHANGED <<lim, chainHead>>

\* the reward, its text and the return
ComputeReward(p) ==
    LET r      == req[p]
        reward == BigSub(r.txCosts, BurntFees(r.block))
    IN  /\ r.pc = "reward"
        /\ Set(p, Return(r, Ptr(RewardText(reward)), Ptr(r.status), NilPtr, NilErr))
        /\ UNCHANGED <<lim, chainHead>>

(***************************************************************************)
(* The duty query: GetSyncCommitteeDuties                                  *)
(***************************************************************************)

DutyQuery(p, slotId) ==
    /\ req[p].pc = "idle"
    /\ Set(p, [req[p] EXCEPT !.kind = "duty", !.slotId = slotId, !.pc = "indexes"])
    /\ UNCHANGED <<lim, chainHead>>

\* getSyncCommitteesValidatorIndexes
IndexesFetch(p, ans) ==
    LET r == Logged(req[p], "sync_committees", ans)
    IN  /\ req[p].pc = "indexes"
        /\ req[p].rt = "sent"
        /\ IF SendAPIRequest(ans) # NilErr
           THEN Set(p, Return(r, NilPtr, NilPtr, NilPtr, SendAPIRequest(ans)))
           ELSE Set(p, [r EXCEPT !.validatorIndexes = ans.data, !.pc = "pubkeys"])
        /\ UNCHANGED <<lim, chainHead>>

\* getPubKeysOfSyncCommittees
PubKeysFetch(p, ans) ==
    LET r == Logged(req[p], "validators",
                    [ans EXCEPT !.query = PubKeysQuery(req[p].validatorIndexes, 1)])
    IN  /\ req[p].pc = "pubkeys"
        /\ req[p].rt = "sent"
        /\ IF SendAPIRequest(ans) # NilErr
           THEN Set(p, Return(r, NilPtr, NilPtr, NilPtr, SendAPIRequest(ans)))
           ELSE Set(p, Return(r, NilPtr, NilPtr, ans.data, NilErr))
        /\ UNCHANGED <<lim, chainHead>>

(***************************************************************************)
(* The handlers                                                            *)
(***************************************************************************)

GetBlockRewardHandler(p) ==
    LET r == req[p]
    IN  /\ r.pc = "returned"
        /\ r.kind = "reward"
        /\ Set(p, [r EXCEPT !.pc = "responded",
                            !.http = HandlerResponse(r.err, [reward |-> r.reward,
                                                            status |-> r.statusOut])])
        /\ UNCHANGED <<lim, chainHead>>

GetSyncDutiesHandler(p) ==
    LET r == req[p]
    IN  /\ r.pc = "returned"
        /\ r.kind = "duty"
        /\ Set(p, [r EXCEPT !.pc = "responded",
                            !.http = HandlerResponse(r.err, r.pubKeys)])
        /\ UNCHANGED <<lim, chainHead>>

\* the recovery middleware of gin.Default() answers a panic
Recovery(p) ==
    /\ req[p].pc = "panicked"
    /\ Set(p, [req[p] EXCEPT !.pc = "responded",
                             !.http = [code |-> StatusInternalServerError,
                                       body |-> [null |-> TRUE]]])
    /\ UNCHANGED <<lim, chainHead>>

(***************************************************************************)
(* Specifications                                                          *)
(***************************************************************************)

\* the head endpoint lists the head slot, or a slot that is no number, or nothing
HeadPayloads == {<<h>> : h \in HeadSlots} \cup {<< <<"x">> >>, << >>}
HashPayloads == {<<"0", "x", "b", "1", "0", "c">>}
IndexPayloads == {<<"1", "2">>}
PubKeyPayloads == {<<"0xaa", "0xbb">>}

WithQuery(answers) ==
    {[net |-> a.net, code |-> a.code, json |-> a.json, data |-> a.data, query |-> << >>] :
        a \in answers}

\* every answer, or (few) the proper answer and one refusal
Answers(few, payloads, zero) ==
    IF few
    THEN {Rest(FALSE, StatusOK, TRUE, d) : d \in payloads}
         \cup {Rest(FALSE, StatusNotFound, TRUE, zero)}
    ELSE RestAnswers(payloads, zero)

RpcBlocks(blocks) ==
    {[err |-> TRUE, block |-> NoBlock]} \cup {[err |-> FALSE, block |-> b] : b \in blocks}

\* the outbound request of request p is answered
FetchStep(p, few, blocks) ==
    \/ \E a \in Answers(few, HeadPayloads, << >>) : HeadFetch(p, a)
    \/ \E a \in Answers(few, HashPayloads, << >>) : BlockHashFetch(p, a)
    \/ \E a \in RpcBlocks(blocks) : BlockFetch(p, a)
    \/ \E ok \in BOOLEAN : ReceiptFetch(p, ok)
    \/ \E a \in Answers(few, IndexPayloads, << >>) : IndexesFetch(p, a)
    \/ \E a \in WithQuery(Answers(few, PubKeyPayloads, << >>)) : PubKeysFetch(p, a)

Step(p, slots, few, blocks) ==
    \/ \E s \in slots : RewardQuery(p, s)
    \/ \E s \in slots : DutyQuery(p, s)
    \/ RoundTripWait(p)
    \/ Forward(p)
    \/ Cancel(p)
    \/ FetchStep(p, few, blocks)
    \/ ComputeReward(p)
    \/ GetBlockRewardHandler(p)
    \/ GetSyncDutiesHandler(p)
    \/ Recovery(p)

\* one inbound request against every answer of the upstream
Init == InitWith(HeadSlots)

AllBlocks == Blocks(TxSet, MaxTxs)

Next == Step(1, SlotInputs, FALSE, AllBlocks) \/ Tick

Spec == Init /\ [][Next]_vars

\* concurrent inbound requests on the one client
ConcSlots == {IntText(Floor + 1)}

ConcBlocks == {Block(NewInt(1), 3, <<Tx(NewInt(30), NewInt(2), NewInt(2), 5)>>)}

ConcInit == InitWith({IntText(Floor + 1)})

ConcStep(p) == Step(p, ConcSlots, TRUE, ConcBlocks)

ConcNext == (\E p \in Requests : ConcStep(p)) \/ Tick

ConcSpec == ConcInit /\ [][ConcNext]_vars

\* the bucket is refilled (the rate is above zero), and a goroutine whose
\* wait is over runs
FairConcSpec == ConcSpec /\ WF_vars(Tick) /\ \A p \in Requests : WF_vars(Forward(p))

(***************************************************************************)
(* Properties                                                              *)
(***************************************************************************)

\* the query of r has returned
Settled(r) == r.pc \in {"returned", "responded"}

\* the slot r was called with, as a number
SlotOf(r) == SetString(r.slotId)

\* the answer to the last outbound request of r
LastAnswer(r) == r.upstream[Len(r.upstream)].ans

\* the upstream answered with status `code`
Refused(ans, code) == ~ans.net /\ ans.code = code

\* C1 as the specification states it: for every slot s <= floor both the
\* reward query and the duty query fail with SlotMissing, whatever the
\* upstream answers
C1_AsClaimed ==
    \A p \in Requests :
        LET r == req[p]
        IN  (Settled(r) /\ SlotOf(r).ok
                /\ BigCmp(SlotOf(r).val, NewInt(BlocksAvailableAfterSlot)) <= 0)
            => r.err.kind = "SlotMissingError"

\* C1, amended: for every slot s <= floor the reward query fails with
\* SlotMissing("Slot is missing"), returns neither reward nor status and
\* sends nothing upstream; the duty query has no floor: whatever its slot,
\* it fails with SlotMissing exactly when the upstream answers 400 to its
\* last request
C1_FloorOnRewardOnly ==
    \A p \in Requests :
        LET r == req[p]
        IN  Settled(r) =>
              /\ (r.kind = "reward" /\ SlotOf(r).ok
                     /\ BigCmp(SlotOf(r).val, NewInt(BlocksAvailableAfterSlot)) <= 0)
                 => /\ r.err = SlotMissingError("Slot is missing")
                    /\ r.reward = NilPtr /\ r.statusOut = NilPtr
                    /\ r.upstream = << >>
              /\ r.kind = "duty"
                 => (r.err.kind = "SlotMissingError" <=> Refused(LastAnswer(r), StatusBadRequest))

\* a reward query for the floor slot itself has failed with SlotMissing
C1_Witness ==
    \E p \in Requests :
        /\ req[p].kind = "reward"
        /\ req[p].slotId = IntText(Floor)
        /\ req[p].pc = "returned"
        /\ req[p].err = SlotMissingError("Slot is missing")

\* the head answer the reward query of r got
HeadAnswer(r) == r.upstream[1].ans

\* the head lookup of r was answered properly: 200 and the head slot
HeadProper(r) ==
    /\ ~HeadAnswer(r).net /\ HeadAnswer(r).code = StatusOK /\ HeadAnswer(r).json
    /\ HeadAnswer(r).data = <<chainHead>>

\* the head lookup of r failed: no answer, 400 or 404, a body that does not
\* decode, or a slot that is no number
HeadFailed(r) ==
    \/ HeadAnswer(r).net
    \/ HeadAnswer(r).code \in {StatusBadRequest, StatusNotFound}
    \/ ~HeadAnswer(r).json
    \/ HeadAnswer(r).data = << <<"x">> >>

\* C2 as the specification states it: for every slot s greater than the
\* current head slot both queries fail with FutureSlot, and the reward query
\* returns neither reward nor status
C2_AsClaimed ==
    \A p \in Requests :
        LET r == req[p]
        IN  (Settled(r) /\ SlotOf(r).ok
                /\ BigCmp(SlotOf(r).val, SetString(chainHead).val) = 1)
            => /\ r.err.kind = "FutureSlotError"
               /\ r.reward = NilPtr /\ r.statusOut = NilPtr

\* C2, amended: a reward query whose slot is above the floor fails with
\* FutureSlot, at once, when its slot is greater than the head slot a proper
\* head answer reports, goes on to the block lookup when it is not, and fails
\* with FutureSlot whatever its slot when the head lookup failed (the lookup
\* then gives slot zero); on a head answer that decodes to an empty data list
\* it panics and returns nothing; with FutureSlot it returns neither reward
\* nor status.  A slot at or below the floor fails with SlotMissing before
\* the head is looked at (C1).  The duty query never looks at the head: it
\* fails with FutureSlot exactly when the upstream answers 404 to its last
\* request
C2_FutureSlot ==
    \A p \in Requests :
        LET r == req[p]
            s == SlotOf(r).val
        IN  (Settled(r) \/ r.pc = "panicked") =>
              /\ (r.kind = "reward" /\ Len(r.upstream) >= 1 /\ HeadProper(r))
                 => IF BigCmp(s, SetString(chainHead).val) = 1
                    THEN r.err = FutureSlotError("Slot is in the future") /\ Len(r.upstream) = 1
                    ELSE Len(r.upstream) >= 2
              /\ (r.kind = "reward" /\ Len(r.upstream) >= 1 /\ HeadFailed(r))
                 => r.err = FutureSlotError("Slot is in the future") /\ Len(r.upstream) = 1
              /\ (r.kind = "reward" /\ Len(r.upstream) >= 1 /\ ~HeadFailed(r)
                     /\ HeadAnswer(r).data = << >>)
                 => r.err.kind = "panic" /\ Len(r.upstream) = 1
              /\ (r.kind = "reward" /\ r.err.kind = "FutureSlotError")
                 => r.reward = NilPtr /\ r.statusOut = NilPtr
              /\ r.kind = "duty"
                 => (r.err.kind = "FutureSlotError" <=> Refused(LastAnswer(r), StatusNotFound))

\* a reward query for the slot after the head, above the floor, has failed
\* with FutureSlot on a proper head answer
C2_Witness ==
    \E p \in Requests :
        /\ req[p].kind = "reward"
        /\ req[p].pc = "returned"
        /\ chainHead = IntText(Floor + 1)
        /\ req[p].slotId = IntText(Floor + 2)
        /\ Len(req[p].upstream) = 1 /\ HeadProper(req[p])
        /\ req[p].err.kind = "FutureSlotError"

\* C3 as the specification states it: at the HTTP boundary every SlotMissing
\* failure is answered 404 {"error": "Slot is missing"}, every FutureSlot
\* failure 400 {"error": "Slot is in the future"}, every other failure 500,
\* and only a successful query 200, wherever the error came from
C3_AsClaimed ==
    \A p \in Requests :
        LET r == req[p]
        IN  r.pc = "responded" =>
              /\ r.err.kind = "SlotMissingError"
                 => r.http = [code |-> StatusNotFound, body |-> [error |-> "Slot is missing"]]
              /\ r.err.kind = "FutureSlotError"
                 => r.http = [code |-> StatusBadRequest,
                              body |-> [error |-> "Slot is in the future"]]
              /\ r.err.kind \in {"error", "panic"} => r.http.code = StatusInternalServerError
              /\ r.http.code = StatusOK <=> r.err = NilErr

\* the query of r has fetched its block
Resolved(r) == r.kind = "reward" /\ r.block # NoBlock

\* the query of r has returned a reward and a status
Succeeded(r) == r.kind = "reward" /\ Settled(r) /\ r.err = NilErr

\* what transaction tx counts with: its effective gas price and
\* effectiveGasPrice x receiptGasUsed when its receipt was fetched, its
\* declared gas price and cost when it was not
PriceUsed(tx, fetched) == IF fetched THEN tx.effectiveGasPrice ELSE tx.gasPrice

CostUsed(tx, fetched) ==
    IF fetched THEN BigMul(tx.effectiveGasPrice, NewInt(tx.receiptGasUsed)) ELSE tx.cost

\* price is strictly greater than 3 x baseFee
AboveThreshold(price, baseFee) == BigCmp(price, BigMul(NewInt(3), baseFee)) = 1

\* one of the first n transactions of r's block is above the threshold
SomeAbove(r, n) ==
    \E i \in 1..n :
        AboveThreshold(PriceUsed(r.block.txs[i], r.receipts[i]), r.block.baseFee)

C4_Status ==
    \A p \in Requests :
        LET r == req[p]
        IN  Resolved(r) =>
              /\ r.pc \in {"receipt", "reward"}
                 => (r.status = "mev" <=> SomeAbove(r, Len(r.receipts)))
              /\ Succeeded(r)
                 => r.statusOut
                      = Ptr(IF SomeAbove(r, Len(r.block.txs)) THEN "mev" ELSE "vanilla")

C4_Sticky ==
    \A p \in Requests :
        (req[p].pc = "receipt" /\ req[p].status = "mev") => req'[p].status = "mev"

\* C4: for every block the reward query resolves, the returned status is
\* "mev" if and only if the price of at least one transaction (effective when
\* its receipt was fetched, declared otherwise) is strictly greater than
\* 3 x the base fee, and "vanilla" otherwise; the same holds of the loop's
\* status over the transactions passed so far, and a pass of the loop never
\* takes "mev" back
C4_Classification == [](C4_Status) /\ [][C4_Sticky]_vars

\* a query has returned "mev" for a block of two transactions of which only
\* the first is above the threshold
C4_Witness ==
    \E p \in Requests :
        LET r == req[p]
        IN  /\ Succeeded(r)
            /\ Len(r.block.txs) = 2
            /\ AboveThreshold(PriceUsed(r.block.txs[1], r.receipts[1]), r.block.baseFee)
            /\ ~AboveThreshold(PriceUsed(r.block.txs[2], r.receipts[2]), r.block.baseFee)
            /\ r.statusOut = Ptr("mev")

\* the sum of what the first n transactions count with
RECURSIVE SumCosts(_, _, _)
SumCosts(txs, fetched, n) ==
    IF n = 0 THEN NewInt(0)
    ELSE BigAdd(SumCosts(txs, fetched, n - 1), CostUsed(txs[n], fetched[n]))

\* C5: once the block is fetched, failed receipt fetches never fail the
\* reward query: the transactions whose receipt fetch failed, and only they,
\* count with their declared cost and declared gas price, every other with
\* effectiveGasPrice x receiptGasUsed and its effective gas price, and the
\* query returns a reward and a status with no error
C5_ReceiptFallback ==
    \A p \in Requests :
        LET r == req[p]
        IN  Resolved(r) =>
              /\ r.txCosts = SumCosts(r.block.txs, r.receipts, Len(r.receipts))
              /\ Settled(r)
                 => /\ r.err = NilErr
                    /\ Len(r.receipts) = Len(r.block.txs)
                    /\ r.reward # NilPtr
                    /\ r.statusOut = Ptr(IF SomeAbove(r, Len(r.receipts))
                                         THEN "mev" ELSE "vanilla")

\* a query has returned a result for a block of which one receipt fetch
\* failed and another succeeded
C5_Witness ==
    \E p \in Requests :
        /\ Succeeded(req[p])
        /\ Len(req[p].block.txs) = 2
        /\ req[p].receipts = <<FALSE, TRUE>>
        /\ req[p].reward # NilPtr

\* (sum of per-transaction costs) - (base fee x gas used), in wei
ExactReward(r) ==
    BigSub(SumCosts(r.block.txs, r.receipts, Len(r.receipts)),
           BigMul(r.block.baseFee, NewInt(r.block.gasUsed)))

\* C6 as the specification states it: for every resolved block the returned
\* reward is the exact reward in wei divided by 10^9, as a decimal string
\* with exactly 9 digits after the point and its sign, and a negative or zero
\* result is returned with no error
C6_AsClaimed ==
    \A p \in Requests :
        LET r == req[p]
        IN  (Resolved(r) /\ Settled(r)) =>
              /\ r.err = NilErr
              /\ r.reward = Ptr(FixedText(ExactReward(r).neg, ExactReward(r).abs, 9))

\* the permutations of 1..n
Perms(n) == {f \in [1..n -> 1..n] : \A i, j \in 1..n : f[i] = f[j] => i = j}

\* the loop over the transactions of r's block taken in the order perm, each
\* with the receipt outcome it had: the first n passes
RECURSIVE LoopOver(_, _, _)
LoopOver(r, perm, n) ==
    IF n = 0 THEN [txCosts |-> NewInt(0), status |-> "vanilla"]
    ELSE TxStep(LoopOver(r, perm, n - 1), r.block.txs[perm[n]], r.receipts[perm[n]],
                r.block.baseFee)

\* C7: for every block and every permutation of its transactions, each with
\* the same receipt outcome, the loop ends with the same cost sum and the same
\* status as the query had, so the query returns the same reward and the same
\* status
C7_OrderIndependent ==
    \A p \in Requests :
        LET r == req[p]
        IN  (Succeeded(r) /\ r.pc = "returned") =>
              /\ \A perm \in Perms(Len(r.block.txs)) :
                    LET end == LoopOver(r, perm, Len(r.block.txs))
                    IN  /\ end.txCosts = r.txCosts
                        /\ r.statusOut = Ptr(end.status)
              /\ r.reward = Ptr(RewardText(BigSub(r.txCosts, BurntFees(r.block))))

\* a query has returned for a block of two different transactions, one above
\* the threshold and one not
C7_Witness ==
    \E p \in Requests :
        LET r == req[p]
        IN  /\ Succeeded(r) /\ r.pc = "returned"
            /\ Len(r.block.txs) = 2
            /\ r.block.txs[1] # r.block.txs[2]
            /\ ~AboveThreshold(PriceUsed(r.block.txs[1], r.receipts[1]), r.block.baseFee)
            /\ AboveThreshold(PriceUsed(r.block.txs[2], r.receipts[2]), r.block.baseFee)

\* the bucket never holds more than its burst, and no more requests have been
\* forwarded than tokens were granted (the full bucket at the start and one
\* per refill)
C8_Bucket ==
    /\ lim.tokens <= 1
    /\ lim.forwarded <= lim.accrued

\* a request is forwarded only at the end of its wait on the bucket, when
\* its turn has come, and is answered only once forwarded
C8_AfterWait ==
    /\ lim'.forwarded > lim.forwarded
       => \E q \in Requests :
             /\ req[q].rt = "waiting" /\ req[q].delay = 0 /\ req'[q].rt = "sent"
             /\ lim'.forwarded = lim.forwarded + 1
    /\ \A p \in Requests :
          /\ Len(req'[p].upstream) > Len(req[p].upstream) => req[p].rt = "sent"
          /\ (req[p].rt # "sent" /\ req'[p].rt = "sent")
                => (req[p].rt = "waiting" /\ lim'.forwarded = lim.forwarded + 1)

\* C8: under any interleaving of concurrent reward and duty queries on one
\* client, every outbound request, REST or RPC, is forwarded only after its
\* wait on the one burst-1 bucket, the number of forwarded requests never
\* exceeds the number of tokens granted, the bucket never holds more than one
\* token, and (the bucket being refilled, at a rate above zero) a waiting
\* request is eventually forwarded
C8_SharedBucket ==
    /\ [](C8_Bucket)
    /\ [][C8_AfterWait]_vars
    /\ \A p \in Requests : (req[p].rt = "waiting") ~> (req[p].rt = "sent")

\* a duty query waits for a refill of the bucket behind a reward query that
\* took the token, after a first request was forwarded
C8_Witness ==
    \E p, q \in Requests :
        /\ req[p].kind = "reward" /\ req[q].kind = "duty"
        /\ req[p].rt = "waiting" /\ req[p].delay = 0
        /\ req[q].rt = "waiting" /\ req[q].delay > 0
        /\ lim.forwarded >= 1

\* C9 as the specification states it: when the inbound request's context is
\* cancelled while an outbound call of its query is blocked in the
\* rate-limiter wait, the wait ends and the whole query aborts with a
\* cancellation error: the call is not sent and the query does nothing else
C9_AsClaimed ==
    \A p \in Requests :
        LET r == req[p]
        IN  r.cancelledInWait =>
              \/ r.rt = "waiting"
              \/ Settled(r) /\ r.err = CanceledErr

\* C10 as the specification states it: the head lookup never fails fatally;
\* on every failure (no answer, 400 or 404, a body that does not decode, an
\* empty or missing data list, a slot that is no number) it returns slot zero
\* and the reward query goes on to its future-slot check
C10_AsClaimed ==
    \A p \in Requests :
        LET r == req[p]
        IN  (r.kind = "reward" /\ Len(r.upstream) >= 1
                /\ (HeadFailed(r) \/ HeadAnswer(r).data = << >>))
            => /\ r.pc # "panicked" /\ r.err.kind # "panic"
               /\ r.currentSlotId = NewInt(0)

\* the endpoints of getBlockHash, getSyncCommitteesValidatorIndexes and
\* getPubKeysOfSyncCommittees
RestAccessors == {"blocks", "sync_committees", "validators"}

\* the answer is a response whose status is neither 400 nor 404
OtherStatus(ans) == ~ans.net /\ ans.code \notin {StatusBadRequest, StatusNotFound}

\* the query of r has returned err and nothing else
FailedWith(r, err) ==
    /\ Settled(r) /\ r.err = err
    /\ r.reward = NilPtr /\ r.statusOut = NilPtr /\ r.pubKeys = NilPtr

\* C11: for each REST accessor (block hash, sync-committee indexes,
\* validator pubkeys) a response with status 400 yields SlotMissing and one
\* with status 404 yields FutureSlot whatever its body; when no response was
\* received the transport error is returned, when a response of another
\* status does not decode the decode error is returned, and otherwise the
\* accessor returns what the body decodes to; the query returns the error of
\* its accessor at once.  In the duty query a failed index lookup is returned
\* without the pubkey lookup being issued, and the returned key list is nil
C11_RestErrors ==
    \A p \in Requests :
        LET r == req[p]
        IN  /\ \A i \in 1..Len(r.upstream) :
                 LET e    == r.upstream[i]
                     a    == e.ans
                     last == i = Len(r.upstream) /\ r.rt = "none"
                 IN  e.endpoint \in RestAccessors =>
                       /\ Refused(a, StatusBadRequest)
                          => last /\ FailedWith(r, SlotMissingError("Slot is not found"))
                       /\ Refused(a, StatusNotFound)
                          => last /\ FailedWith(r, FutureSlotError("Slot is in the future"))
                       /\ a.net => last /\ FailedWith(r, TransportErr)
                       /\ (OtherStatus(a) /\ ~a.json) => last /\ FailedWith(r, JsonErr)
                       /\ (OtherStatus(a) /\ a.json) =>
                            /\ e.endpoint = "blocks"
                               => /\ r.blockHash = HexToHash(a.data)
                                  /\ r.pc = "block" \/ Len(r.upstream) > i
                            /\ e.endpoint = "sync_committees"
                               => /\ r.validatorIndexes = a.data
                                  /\ r.pc = "pubkeys" \/ Len(r.upstream) > i
                            /\ e.endpoint = "validators"
                               => /\ Settled(r) /\ r.err = NilErr
                                  /\ r.pubKeys = a.data
            /\ (r.kind = "duty" /\ Len(r.upstream) >= 1
                   /\ ~(OtherStatus(r.upstream[1].ans) /\ r.upstream[1].ans.json))
               => /\ Len(r.upstream) = 1 /\ r.rt = "none"
                  /\ Settled(r) /\ r.err # NilErr /\ r.pubKeys = NilPtr

\* a duty query whose index lookup was answered 400 with a body that is no
\* JSON has failed with SlotMissing, without a pubkey lookup
C11_Witness ==
    \E p \in Requests :
        /\ req[p].kind = "duty"
        /\ req[p].pc = "returned"
        /\ Len(req[p].upstream) = 1
        /\ req[p].upstream[1].endpoint = "sync_committees"
        /\ Refused(req[p].upstream[1].ans, StatusBadRequest)
        /\ ~req[p].upstream[1].ans.json
        /\ req[p].err.kind = "SlotMissingError"
        /\ req[p].pubKeys = NilPtr

\* the outbound requests of the reward query, in the order of its code
RewardSteps(i) ==
    IF i = 1 THEN "headers"
    ELSE IF i = 2 THEN "blocks"
    ELSE IF i = 3 THEN "eth_getBlockByHash"
    ELSE "eth_getTransactionReceipt"

\* the i-th outbound request of r was answered in a way that rejects the query
Rejects(r, i) ==
    LET a == r.upstream[i].ans
    IN  \/ i = 1 /\ (HeadFailed(r) \/ a.data = << >>
                       \/ BigCmp(SlotOf(r).val, SetString(a.data[1]).val) = 1)
        \/ i = 2 /\ ~(OtherStatus(a) /\ a.json)
        \/ i = 3 /\ a.err

\* the query of r is over: it returned, or a panic unwound it
Over(r) == Settled(r) \/ r.pc = "panicked"

C12_Order ==
    \A p \in Requests :
        LET r == req[p]
        IN  r.kind = "reward" =>
              /\ \A i \in 1..Len(r.upstream) : r.upstream[i].endpoint = RewardSteps(i)
              /\ ~SlotOf(r).ok => Over(r) /\ r.upstream = << >> /\ r.rt = "none"
              /\ (SlotOf(r).ok
                     /\ BigCmp(SlotOf(r).val, NewInt(BlocksAvailableAfterSlot)) <= 0)
                 => /\ FailedWith(r, SlotMissingError("Slot is missing"))
                    /\ r.upstream = << >> /\ r.rt = "none"
              /\ \A i \in 1..Len(r.upstream) :
                    /\ Rejects(r, i)
                       => Over(r) /\ r.err # NilErr /\ Len(r.upstream) = i /\ r.rt = "none"
                    /\ i < Len(r.upstream) => ~Rejects(r, i)
              /\ Len(r.upstream) > 3 => Len(r.upstream) - 3 <= Len(r.block.txs)
              /\ (Settled(r) /\ r.err = NilErr)
                 => Len(r.upstream) = 3 + Len(r.block.txs)

C12_NoLaterStep ==
    \A p \in Requests :
        Over(req[p]) =>
            /\ req'[p].upstream = req[p].upstream
            /\ req'[p].rt = "none"
            /\ req'[p].err = req[p].err
            /\ Over(req'[p])

\* C12: the reward query runs its steps in the fixed order parse, floor
\* check, head fetch and future check, block-hash resolution, block fetch,
\* receipt fetches; a slot <= floor is reported SlotMissing before the head
\* is fetched, whatever the head is; and once a step has rejected the
\* request no later step runs and nothing more is sent upstream
C12_FixedOrder == [](C12_Order) /\ [][C12_NoLaterStep]_vars

\* a reward query for the floor slot, a slot that is also beyond the head of
\* the chain, has failed with SlotMissing and has sent nothing upstream
C12_Witness ==
    \E p \in Requests :
        /\ req[p].kind = "reward"
        /\ req[p].slotId = IntText(Floor)
        /\ chainHead = IntText(Floor - 1)
        /\ Settled(req[p])
        /\ req[p].upstream = << >> /\ lim.forwarded = 0
        /\ req[p].err.kind = "SlotMissingError"

\* s is an unsigned decimal literal: digits only, at least one
UnsignedLiteral(s) == s # << >> /\ \A i \in 1..Len(s) : IsDigit(s[i])

\* C13 as the specification states it: a reward query whose slot string is
\* not a valid non-negative integer literal (empty, non-numeric, or carrying
\* a sign) fails with the generic parse error, not with SlotMissing or
\* FutureSlot, sends nothing upstream, and is answered with HTTP 500
C13_AsClaimed ==
    \A p \in Requests :
        LET r == req[p]
        IN  (r.kind = "reward" /\ ~UnsignedLiteral(r.slotId))
            => /\ Settled(r) /\ r.err = ParseErr
               /\ r.upstream = << >>
               /\ r.pc = "responded" => r.http.code = StatusInternalServerError

====
